---- MODULE Spec2Model ----
(***************************************************************************)
(* Role-based access layer of the school-management application:          *)
(*   - ProtectedRoute   (src/src/components/common/ProtectedRoute.tsx)     *)
(*   - AppContent       (src/src/components/AppContent.tsx)                *)
(*   - useAdminSchoolsData (src/src/hooks/useAdminSchoolsData.ts)          *)
(*                                                                         *)
(* Three specifications share the variables:                               *)
(*   SpecGate   ProtectedRoute re-rendered on every change of the          *)
(*              authentication snapshot or of its props;                   *)
(*   SpecApp    AppContent with its asynchronous route-access effect;      *)
(*   SpecQuery  the query function of useAdminSchoolsData with its retry   *)
(*              policy.                                                    *)
(*                                                                         *)
(* JavaScript values: null/undefined is the string Null, a missing         *)
(* object is a record whose fields are Null, a nullable record is a        *)
(* sequence of length 0 or 1.                                              *)
(***************************************************************************)
EXTENDS Integers, Sequences, FiniteSets, TLC

VARIABLES
    authState,      \* useAuth(): [user, isLoading, error, isInitialized]
    props,          \* ProtectedRoute props: [allowedRoles, requireSchoolAssignment]
    rendered,       \* what ProtectedRoute returned on its last render
    pathname,       \* window.location.pathname
    accessCheck,    \* AppContent state accessCheck: <<>> (null) or <<access>>
    inflight,       \* pending RouteGuard.checkAccess promises, in call order
    href,           \* last value assigned to window.location.href by checkRouteAccess
    unhandled,      \* a rejection escaped checkRouteAccess
    appView,        \* what AppContent returned on its last render
    queryStatus,    \* useQuery: "idle" | "fetching" | "retrying" | "success" | "error"
    failureCount,   \* useQuery: failures of the current fetch so far
    queryError,     \* message of the last error thrown by queryFn, or Null
    lastRun         \* the last run of queryFn: [user, rpc] (rpc: remote call made)

vars == <<authState, props, rendered, pathname, accessCheck, inflight, href,
          unhandled, appView, queryStatus, failureCount, queryError, lastRun>>

gateVars  == <<props, rendered>>
appVars   == <<pathname, accessCheck, inflight, href, unhandled, appView>>
queryVars == <<queryStatus, failureCount, queryError, lastRun>>

-----------------------------------------------------------------------------
(* JavaScript values                                                       *)

Null == "<null>"

\* JavaScript truthiness of a nullable string
Truthy(s) == s # Null /\ s # ""

\* String.prototype.includes
Includes(s, sub) ==
    \E i \in 1..(Len(s) - Len(sub) + 1) : SubSeq(s, i, i + Len(sub) - 1) = sub

-----------------------------------------------------------------------------
(* Bounds and input domains                                                *)

MaxAllowed == 2      \* longest allowedRoles list tried
MaxInFlight == 2     \* most route-access checks pending at once

\* the closed set of role tags
UserRoles == {"school_director", "principal", "teacher", "parent",
              "finance_officer", "edufam_admin"}

\* roles a principal may carry: absent, empty, a role tag, an unknown string
RoleValues == UserRoles \cup {Null, "", "Teacher"}

NoUser == [id |-> Null, role |-> Null, school_id |-> Null, status |-> Null]

GateUsers ==
    {NoUser} \cup
    [id : {"u1"}, role : RoleValues, school_id : {Null, "school-1"},
     status : {Null, "active", "inactive"}]

ErrorTexts == {Null, "", "Account deactivated", "User is inactive",
               "Account Deactivated", "Network request failed"}

AllowedRolesLists == {s \in SUBSET UserRoles : Cardinality(s) <= MaxAllowed}

GateProps == [allowedRoles : AllowedRolesLists, requireSchoolAssignment : BOOLEAN]

-----------------------------------------------------------------------------
(* ProtectedRoute                                                          *)

\* A render result: the element returned and the value assigned to
\* window.location.href during the render (Null: none).
Element(view, target) == [view |-> view, href |-> target]

\* mutant: the redirect for a missing user goes to a login page that is not "/"
LoginPath_Other == "/login"

\* ProtectedRoute.tsx 81: window.location.href = "/"
LoginPath == "/"

\* mutant: the school-assignment exemption list also names school_director
ExemptRoles_Wider == {"edufam_admin", "school_director"}

\* ProtectedRoute.tsx 156: the roles exempt from the school-assignment requirement
ExemptRoles == {"edufam_admin"}

\* mutant: the role check comes before the deactivated-account check
ProtectedRoute_RoleFirst(auth, p) ==
    LET user == auth.user
        error == auth.error
    IN  IF auth.isLoading THEN Element("LoadingScreen", Null)
        ELSE IF Truthy(error) THEN
            IF Includes(error, "deactivated") \/ Includes(error, "inactive")
            THEN Element("DeactivatedAccountMessage", Null)
            ELSE Element("AuthenticationError", Null)
        ELSE IF user = NoUser THEN Element("LoadingScreen", LoginPath)
        ELSE IF ~Truthy(user.role) THEN Element("RoleConfigurationError", Null)
        ELSE IF user.status = "inactive"
            THEN Element("DeactivatedAccountMessage", Null)
        ELSE IF p.allowedRoles # {} /\ user.role \notin p.allowedRoles
            THEN Element("RoleNotAllowed", Null)
        ELSE IF p.requireSchoolAssignment /\ ~Truthy(user.school_id)
                /\ user.role \notin ExemptRoles
            THEN Element("SchoolAssignmentRequired", Null)
        ELSE Element("children", Null)

\* mutant: the allowedRoles check comes before the deactivated-account check
ProtectedRoute_AllowedFirst(auth, p) ==
    LET user == auth.user
        error == auth.error
    IN  IF auth.isLoading THEN Element("LoadingScreen", Null)
        ELSE IF Truthy(error) THEN
            IF Includes(error, "deactivated") \/ Includes(error, "inactive")
            THEN Element("DeactivatedAccountMessage", Null)
            ELSE Element("AuthenticationError", Null)
        ELSE IF user = NoUser THEN Element("LoadingScreen", LoginPath)
        ELSE IF p.allowedRoles # {} /\ user.role \notin p.allowedRoles
            THEN Element("RoleNotAllowed", Null)
        ELSE IF user.status = "inactive"
            THEN Element("DeactivatedAccountMessage", Null)
        ELSE IF ~Truthy(user.role) THEN Element("RoleConfigurationError", Null)
        ELSE IF p.requireSchoolAssignment /\ ~Truthy(user.school_id)
                /\ user.role \notin ExemptRoles
            THEN Element("SchoolAssignmentRequired", Null)
        ELSE Element("children", Null)

\* ProtectedRoute.tsx 41-192: the checks in the order of the source
ProtectedRoute(auth, p) ==
    LET user == auth.user
        error == auth.error
    IN  IF auth.isLoading THEN Element("LoadingScreen", Null)
        ELSE IF Truthy(error) THEN
            IF Includes(error, "deactivated") \/ Includes(error, "inactive")
            THEN Element("DeactivatedAccountMessage", Null)
            ELSE Element("AuthenticationError", Null)
        ELSE IF user = NoUser THEN Element("LoadingScreen", LoginPath)
        ELSE IF user.status = "inactive"
            THEN Element("DeactivatedAccountMessage", Null)
        ELSE IF ~Truthy(user.role) THEN Element("RoleConfigurationError", Null)
        ELSE IF p.allowedRoles # {} /\ user.role \notin p.allowedRoles
            THEN Element("RoleNotAllowed", Null)
        ELSE IF p.requireSchoolAssignment /\ ~Truthy(user.school_id)
                /\ user.role \notin ExemptRoles
            THEN Element("SchoolAssignmentRequired", Null)
        ELSE Element("children", Null)

-----------------------------------------------------------------------------
(* SpecGate: ProtectedRoute under a changing authentication snapshot       *)

QueryIdle == [ran |-> FALSE, user |-> NoUser, rpc |-> FALSE]

\* the variables of AppContent, untouched
AppIdle ==
    /\ pathname = "/dashboard"
    /\ accessCheck = <<>>
    /\ inflight = <<>>
    /\ href = Null
    /\ unhandled = FALSE
    /\ appView = Element("LoadingScreen", Null)

\* the variables of useAdminSchoolsData, untouched
HookIdle ==
    /\ queryStatus = "idle"
    /\ failureCount = 0
    /\ queryError = Null
    /\ lastRun = QueryIdle

\* ProtectedRoute.tsx 24-30: the first render, authentication still loading
GateInit ==
    /\ authState = [user |-> NoUser, isLoading |-> TRUE, error |-> Null,
                    isInitialized |-> TRUE]
    /\ props \in GateProps
    /\ rendered = ProtectedRoute(authState, props)
    /\ AppIdle
    /\ HookIdle

\* ProtectedRoute.tsx 30: useAuth() yields a new snapshot and the component
\* renders again
GateRender(auth, p) ==
    /\ authState' = auth
    /\ props' = p
    /\ rendered' = ProtectedRoute(auth, p)
    /\ UNCHANGED <<appVars, queryVars>>

GateUserChange ==
    \E u \in GateUsers :
        /\ u # authState.user
        /\ GateRender([authState EXCEPT !.user = u], props)

GateErrorChange ==
    \E e \in ErrorTexts :
        /\ e # authState.error
        /\ GateRender([authState EXCEPT !.error = e], props)

GateLoadingChange ==
    \E l \in BOOLEAN :
        /\ l # authState.isLoading
        /\ GateRender([authState EXCEPT !.isLoading = l], props)

\* ProtectedRoute.tsx 24-29: the route changes, the component gets other props
GatePropsChange ==
    \E p \in GateProps :
        /\ p # props
        /\ GateRender(authState, p)

GateNext ==
    \/ GateUserChange
    \/ GateErrorChange
    \/ GateLoadingChange
    \/ GatePropsChange

SpecGate == GateInit /\ [][GateNext]_vars

-----------------------------------------------------------------------------
(* RouteGuard: the route registry and the access evaluation                *)

RouteRequirement(roles, school) ==
    [allowedRoles |-> roles, requireSchoolAssignment |-> school]

Routes == {"/dashboard", "/schools", "/classes"}

\* RouteGuard.getRouteConfig: the static lookup from path to requirement
GetRouteConfig(path) ==
    CASE path = "/schools" -> RouteRequirement({"edufam_admin"}, FALSE)
      [] path = "/classes" -> RouteRequirement({"teacher", "principal"}, TRUE)
      [] OTHER -> RouteRequirement({}, FALSE)

Access(has, target, err) == [hasAccess |-> has, redirectTo |-> target, error |-> err]

\* RouteGuard.checkAccess: rules 3 to 8 of the evaluation order, as the
\* {hasAccess, redirectTo, error} value checkRouteAccess receives
CheckAccess(user, config) ==
    IF user = NoUser THEN Access(FALSE, "/", "authentication required")
    ELSE IF user.status = "inactive"
        THEN Access(FALSE, "/deactivated", "account deactivated")
    ELSE IF ~Truthy(user.role)
        THEN Access(FALSE, "/unauthorized", "role not configured")
    ELSE IF config.allowedRoles # {} /\ user.role \notin config.allowedRoles
        THEN Access(FALSE, "/unauthorized", "role not permitted")
    ELSE IF config.requireSchoolAssignment /\ user.role # "edufam_admin"
            /\ ~Truthy(user.school_id)
        THEN Access(FALSE, "/unauthorized", "school assignment required")
    ELSE Access(TRUE, Null, Null)

-----------------------------------------------------------------------------
(* AppContent                                                              *)

\* AppContent.tsx 23-26: dbStatus, never set again
dbStatus == [connected |-> TRUE, error |-> Null]

\* AppContent.tsx 27: isCheckingDb, never set again
isCheckingDb == FALSE

\* AppContent.tsx 82-208: the render, given the auth snapshot and the stored
\* accessCheck (ac)
AppContent(auth, ac) ==
    LET user == auth.user
        authError == auth.error
    IN  IF ~auth.isInitialized \/ auth.isLoading \/ isCheckingDb
            THEN Element("LoadingScreen", Null)
        ELSE IF ~dbStatus.connected
            THEN Element("DatabaseConnectionError", Null)
        ELSE IF Truthy(authError) THEN
            IF Includes(authError, "deactivated") \/ Includes(authError, "inactive")
            THEN Element("DeactivatedAccountMessage", Null)
            ELSE Element("AuthenticationError", Null)
        ELSE IF user = NoUser THEN Element("LoadingScreen", Null)
        ELSE IF user.status = "inactive"
            THEN Element("DeactivatedAccountMessage", Null)
        ELSE IF ~Truthy(user.role)
            THEN Element("AccountConfigurationError", Null)
        ELSE IF ac # <<>> /\ ~ac[1].hasAccess THEN
            IF ac[1].redirectTo = "/unauthorized"
            THEN Element("UnauthorizedPage", Null)
            ELSE Element("LoadingScreen", Null)
        ELSE Element("ElimshaLayout", Null)

AppUsers ==
    { NoUser,
      [id |-> "u1", role |-> "edufam_admin", school_id |-> Null, status |-> "active"],
      [id |-> "u2", role |-> "teacher", school_id |-> Null, status |-> "active"],
      [id |-> "u3", role |-> "parent", school_id |-> "school-1", status |-> "inactive"],
      [id |-> "u4", role |-> Null, school_id |-> "school-1", status |-> Null] }

AppErrors == {Null, "Account deactivated", "Network request failed"}

\* the variables of ProtectedRoute, untouched
GateIdle ==
    /\ props = RouteRequirement({}, FALSE)
    /\ rendered = Element("LoadingScreen", Null)

\* the document is still loaded: no navigation has been started
Loaded == href = Null

RemoveAt(s, i) == SubSeq(s, 1, i - 1) \o SubSeq(s, i + 1, Len(s))

\* AppContent.tsx 21-65: the state after the first render and its effect,
\* authentication still loading (no user: the effect stores null)
AppInit ==
    /\ authState = [user |-> NoUser, isLoading |-> TRUE, error |-> Null,
                    isInitialized |-> FALSE]
    /\ pathname \in Routes
    /\ accessCheck = <<>>
    /\ inflight = <<>>
    /\ href = Null
    /\ unhandled = FALSE
    /\ appView = AppContent(authState, accessCheck)
    /\ GateIdle
    /\ HookIdle

\* AppContent.tsx 35, 82-87: a new snapshot with the same user; the effect
\* (deps [authState.user]) does not run
AppAuthChange ==
    \E l \in BOOLEAN, i \in BOOLEAN, e \in AppErrors :
        LET auth == [authState EXCEPT !.isLoading = l, !.isInitialized = i,
                                      !.error = e]
        IN  /\ Loaded
            /\ auth # authState
            /\ authState' = auth
            /\ appView' = AppContent(auth, accessCheck)
            /\ UNCHANGED <<pathname, accessCheck, inflight, href, unhandled,
                           gateVars, queryVars>>

\* AppContent.tsx 41-47, 64-65: the user becomes absent; the effect runs
\* checkRouteAccess, which stores null and returns
AppUserCleared ==
    /\ Loaded
    /\ authState.user # NoUser
    /\ authState' = [authState EXCEPT !.user = NoUser]
    /\ accessCheck' = <<>>
    /\ appView' = AppContent(authState', accessCheck')
    /\ UNCHANGED <<pathname, inflight, href, unhandled, gateVars, queryVars>>

\* AppContent.tsx 41-51, 64-65: another user; the effect runs checkRouteAccess
\* up to its await of RouteGuard.checkAccess
AppUserChange ==
    \E u \in AppUsers \ {NoUser} :
        /\ Loaded
        /\ u # authState.user
        /\ Len(inflight) < MaxInFlight
        /\ authState' = [authState EXCEPT !.user = u]
        /\ inflight' = Append(inflight,
                              [user |-> u, config |-> GetRouteConfig(pathname)])
        /\ appView' = AppContent(authState', accessCheck)
        /\ UNCHANGED <<pathname, accessCheck, href, unhandled, gateVars, queryVars>>

\* AppContent.tsx 51-61: a pending checkAccess resolves; checkRouteAccess
\* stores the result and navigates unless the target is "/unauthorized"
CheckResolve ==
    \E i \in 1..Len(inflight) :
        LET c == inflight[i]
            access == CheckAccess(c.user, c.config)
        IN  /\ Loaded
            /\ inflight' = RemoveAt(inflight, i)
            /\ accessCheck' = <<access>>
            /\ href' = IF ~access.hasAccess /\ Truthy(access.redirectTo)
                          /\ access.redirectTo # "/unauthorized"
                       THEN access.redirectTo
                       ELSE href
            /\ appView' = AppContent(authState, accessCheck')
            /\ UNCHANGED <<authState, pathname, unhandled, gateVars, queryVars>>

\* AppContent.tsx 51, 64: a pending checkAccess rejects; nothing catches the
\* rejection and nothing is stored
CheckReject ==
    \E i \in 1..Len(inflight) :
        /\ Loaded
        /\ inflight' = RemoveAt(inflight, i)
        /\ unhandled' = TRUE
        /\ UNCHANGED <<authState, pathname, accessCheck, href, appView,
                       gateVars, queryVars>>

AppNext ==
    \/ AppAuthChange
    \/ AppUserCleared
    \/ AppUserChange
    \/ CheckResolve
    \/ CheckReject

SpecApp == AppInit /\ [][AppNext]_vars

-----------------------------------------------------------------------------
(* useAdminSchoolsData                                                     *)

ErrAuthRequired == "User authentication required"
ErrRoleNotLoaded == "User role not loaded yet"
ErrAccessDenied ==
    "Access denied. Only EduFam/Elimisha administrators can access school data."

\* useAdminSchoolsData.ts 41: errors of the remote procedure, as rethrown
RpcErrors == {"Failed to fetch schools: connection reset",
              "Failed to fetch schools: JWT authentication expired"}

\* useAdminSchoolsData.ts 87: failureCount < 2
MaxRetries == 2

\* mutant: the role comparison is left to the `enabled` option
QueryGuard_NoRoleCheck(user) ==
    IF user = NoUser THEN ErrAuthRequired
    ELSE IF ~Truthy(user.role) THEN ErrRoleNotLoaded
    ELSE Null

\* useAdminSchoolsData.ts 18-29: the guard of queryFn; the message thrown,
\* or Null when the guard passes
QueryGuard(user) ==
    IF user = NoUser THEN ErrAuthRequired
    ELSE IF ~Truthy(user.role) THEN ErrRoleNotLoaded
    ELSE IF user.role # "edufam_admin" THEN ErrAccessDenied
    ELSE Null

\* useAdminSchoolsData.ts 78: enabled
Enabled(user) == user # NoUser /\ Truthy(user.role) /\ user.role = "edufam_admin"

\* useAdminSchoolsData.ts 81-88: retry
Retry(count, message) ==
    IF Includes(message, "authentication") \/ Includes(message, "Access denied")
    THEN FALSE
    ELSE count < MaxRetries

\* useAdminSchoolsData.ts 81-88: queryFn threw `message` after `count`
\* failures; useQuery asks retry(count, error) and counts the failure when it
\* retries
QueryFailed(count, message) ==
    /\ queryError' = message
    /\ IF Retry(count, message)
       THEN /\ queryStatus' = "retrying"
            /\ failureCount' = count + 1
       ELSE /\ queryStatus' = "error"
            /\ failureCount' = count

\* useAdminSchoolsData.ts 14-37: one run of queryFn up to its await of
\* supabase.rpc, with the user of the latest render; `count` is the failure
\* count the run starts with
RunQueryFn(count) ==
    LET user == authState.user
        thrown == QueryGuard(user)
    IN  IF thrown # Null
        THEN /\ lastRun' = [ran |-> TRUE, user |-> user, rpc |-> FALSE]
             /\ QueryFailed(count, thrown)
        ELSE /\ lastRun' = [ran |-> TRUE, user |-> user, rpc |-> TRUE]
             /\ queryStatus' = "fetching"
             /\ failureCount' = count
             /\ UNCHANGED queryError

QueryUsers ==
    AppUsers \cup
    { [id |-> "u5", role |-> "", school_id |-> Null, status |-> "active"],
      [id |-> "u6", role |-> "edufam_admin", school_id |-> "school-1",
       status |-> "active"] }

\* useAdminSchoolsData.ts 9-13: the hook is mounted, no user yet, query disabled
QueryInit ==
    /\ authState = [user |-> NoUser, isLoading |-> TRUE, error |-> Null,
                    isInitialized |-> FALSE]
    /\ HookIdle
    /\ GateIdle
    /\ AppIdle

\* useAdminSchoolsData.ts 10: useAuth() yields another user
QueryUserChange ==
    \E u \in QueryUsers :
        /\ u # authState.user
        /\ authState' = [authState EXCEPT !.user = u]
        /\ UNCHANGED <<queryVars, gateVars, appVars>>

\* useAdminSchoolsData.ts 12-14, 78: a fetch starts, by itself when the query
\* is enabled or by a manual refetch whatever `enabled` says
QueryFetch ==
    \E manual \in BOOLEAN :
        /\ queryStatus \in {"idle", "success", "error"}
        /\ manual \/ Enabled(authState.user)
        /\ RunQueryFn(0)
        /\ UNCHANGED <<authState, gateVars, appVars>>

\* useAdminSchoolsData.ts 37-62: the remote procedure answers with data
RpcSuccess ==
    /\ queryStatus = "fetching"
    /\ queryStatus' = "success"
    /\ queryError' = Null
    /\ UNCHANGED <<failureCount, lastRun, authState, gateVars, appVars>>

\* useAdminSchoolsData.ts 39-42, 73-76, 81-88: the remote procedure answers
\* with an error, queryFn rethrows it
RpcFailure ==
    \E message \in RpcErrors :
        /\ queryStatus = "fetching"
        /\ QueryFailed(failureCount, message)
        /\ UNCHANGED <<lastRun, authState, gateVars, appVars>>

\* useAdminSchoolsData.ts 14, 81-89: after the retry delay queryFn runs again
QueryRetry ==
    /\ queryStatus = "retrying"
    /\ RunQueryFn(failureCount)
    /\ UNCHANGED <<authState, gateVars, appVars>>

QueryNext ==
    \/ QueryUserChange
    \/ QueryFetch
    \/ RpcSuccess
    \/ RpcFailure
    \/ QueryRetry

SpecQuery == QueryInit /\ [][QueryNext]_vars

-----------------------------------------------------------------------------
(* The access decision a render stands for                                 *)

Pending == [kind |-> "pending", arg |-> Null]
DeactivatedView == [kind |-> "deactivated", arg |-> Null]
Deny(reason) == [kind |-> "deny", arg |-> reason]
RedirectTo(path) == [kind |-> "redirect", arg |-> path]
Allow == [kind |-> "allow", arg |-> Null]

Decision(el) ==
    CASE el.view = "LoadingScreen" /\ el.href = Null -> Pending
      [] el.view = "LoadingScreen" /\ el.href # Null -> RedirectTo(el.href)
      [] el.view = "DeactivatedAccountMessage" -> DeactivatedView
      [] el.view = "AuthenticationError" -> Deny("authentication error")
      [] el.view = "RoleConfigurationError" -> Deny("role not configured")
      [] el.view = "AccountConfigurationError" -> Deny("role not configured")
      [] el.view = "RoleNotAllowed" -> Deny("role not permitted")
      [] el.view = "UnauthorizedPage" -> Deny("unauthorized")
      [] el.view = "SchoolAssignmentRequired" -> Deny("school assignment required")
      [] el.view = "children" -> Allow
      [] el.view = "ElimshaLayout" -> Allow
      [] OTHER -> [kind |-> "none", arg |-> el.view]

\* an error is reported, a role is assigned, a school is assigned: the value
\* is there and is not the empty text
HasError(auth) == auth.error \notin {Null, ""}
HasRole(user) == user.role \notin {Null, ""}
HasSchool(user) == user.school_id \notin {Null, ""}

\* authentication has resolved without error
Resolved(auth) == auth.isInitialized /\ ~auth.isLoading /\ ~HasError(auth)

\* The eight rules of the evaluation order, as <<condition, outcome>> pairs
Rules(auth, req) ==
    << <<auth.isLoading, Pending>>,
       <<HasError(auth) /\ (Includes(auth.error, "deactivated")
                             \/ Includes(auth.error, "inactive")),
         DeactivatedView>>,
       <<HasError(auth), Deny("authentication error")>>,
       <<auth.user = NoUser, RedirectTo("/")>>,
       <<auth.user.status = "inactive", DeactivatedView>>,
       <<~HasRole(auth.user), Deny("role not configured")>>,
       <<req.allowedRoles # {} /\ auth.user.role \notin req.allowedRoles,
         Deny("role not permitted")>>,
       <<req.requireSchoolAssignment /\ auth.user.role # "edufam_admin"
            /\ ~HasSchool(auth.user),
         Deny("school assignment required")>>,
       <<TRUE, Allow>> >>

\* the outcome of the first rule whose condition holds
FirstMatch(rules) ==
    LET k == CHOOSE i \in 1..Len(rules) :
                 rules[i][1] /\ \A j \in 1..(i - 1) : ~rules[j][1]
    IN  rules[k][2]

-----------------------------------------------------------------------------
(* Claims about ProtectedRoute (SpecGate)                                  *)

\* C1: for every combination of loading flag, error text, principal, status,
\* role, allowedRoles, school requirement and school assignment, the outcome
\* of ProtectedRoute is the outcome of the first matching rule of the eight
\* rules taken in order.
C1_FirstMatchingRuleWins ==
    Decision(rendered) = FirstMatch(Rules(authState, props))

\* the order matters here: an inactive principal without a role, on a route
\* whose allowedRoles is not empty, gets the deactivated view
C1_Witness ==
    /\ ~authState.isLoading /\ ~HasError(authState)
    /\ authState.user # NoUser
    /\ authState.user.status = "inactive"
    /\ ~HasRole(authState.user)
    /\ props.allowedRoles # {}
    /\ Decision(rendered) = DeactivatedView

\* the principal gets as far as rule 7
ReachesRule7 ==
    /\ ~authState.isLoading
    /\ ~HasError(authState)
    /\ authState.user # NoUser
    /\ authState.user.status # "inactive"
    /\ HasRole(authState.user)
    /\ (props.allowedRoles = {} \/ authState.user.role \in props.allowedRoles)

\* C2: the school-assignment denial never fires for role edufam_admin,
\* whatever the school assignment, and every other role that reaches rule 7
\* without a school assignment on a route that requires one is denied with
\* "school assignment required".
C2_AdminSoleExemption ==
    /\ authState.user.role = "edufam_admin"
          => rendered.view # "SchoolAssignmentRequired"
    /\ ( /\ ReachesRule7
         /\ authState.user.role # "edufam_admin"
         /\ ~HasSchool(authState.user)
         /\ props.requireSchoolAssignment )
          => Decision(rendered) = Deny("school assignment required")

\* a school_director without a school is denied on a route that requires one
C2_Witness ==
    /\ ReachesRule7
    /\ authState.user.role = "school_director"
    /\ ~HasSchool(authState.user)
    /\ props.requireSchoolAssignment
    /\ rendered.view = "SchoolAssignmentRequired"

\* C3 as stated: with authentication resolved without error and no principal,
\* every gate (ProtectedRoute and AppContent) decides RedirectTo("/").
C3_Original ==
    (Resolved(authState) /\ authState.user = NoUser)
        => /\ Decision(rendered) = RedirectTo("/")
           /\ Decision(AppContent(authState, accessCheck)) = RedirectTo("/")

\* C3 amended: with authentication resolved without error and no principal,
\* ProtectedRoute decides RedirectTo("/") (it assigns "/" to
\* window.location.href), while AppContent renders the loading screen and
\* its render starts no navigation.
C3_RedirectOnlyInProtectedRoute ==
    (Resolved(authState) /\ authState.user = NoUser)
        => /\ Decision(rendered) = RedirectTo("/")
           /\ rendered.href = "/"
           /\ AppContent(authState, accessCheck) = Element("LoadingScreen", Null)

C3_Witness ==
    /\ Resolved(authState)
    /\ authState.user = NoUser
    /\ rendered = Element("LoadingScreen", "/")

\* C4: for a principal whose status is "inactive" or whose role is absent the
\* outcome is the same under every route requirement: the deactivated view
\* for the inactive principal, Deny(role not configured) for the one that is
\* not inactive and has no role (authentication resolved without error).
C4_RequirementIndependent ==
    (authState.user # NoUser
        /\ (authState.user.status = "inactive" \/ ~HasRole(authState.user)))
    => /\ \A p \in GateProps : ProtectedRoute(authState, p) = rendered
       /\ (~authState.isLoading /\ ~HasError(authState)) =>
             Decision(rendered) =
                 IF authState.user.status = "inactive"
                 THEN DeactivatedView
                 ELSE Deny("role not configured")

\* an inactive teacher on a route that allows only other roles and requires
\* a school assignment still gets the deactivated view
C4_Witness ==
    /\ ~authState.isLoading /\ ~HasError(authState)
    /\ authState.user # NoUser
    /\ authState.user.status = "inactive"
    /\ authState.user.role = "teacher"
    /\ props.allowedRoles # {}
    /\ "teacher" \notin props.allowedRoles
    /\ props.requireSchoolAssignment
    /\ Decision(rendered) = DeactivatedView

-----------------------------------------------------------------------------
(* Claims about AppContent (SpecApp)                                       *)

\* what checkRouteAccess stores for user u on path p
ExpectedCheck(u, p) ==
    IF u = NoUser THEN <<>> ELSE <<CheckAccess(u, GetRouteConfig(p))>>

\* C5 as stated: the decision presented is a function of the current
\* authentication snapshot and route alone: a step that changes neither
\* changes no decision (no dependence on the stored accessCheck).
C5_Original ==
    [][(authState' = authState /\ pathname' = pathname)
          => Decision(appView') = Decision(appView)]_vars

\* C6 as stated: once every route-access check has completed (none failed),
\* the stored access decision and the navigation performed are those of the
\* latest principal.
C6_Original ==
    (inflight = <<>> /\ ~unhandled)
        => /\ accessCheck = ExpectedCheck(authState.user, pathname)
           /\ href \in {Null} \cup
                 {c[1].redirectTo : c \in {ExpectedCheck(authState.user, pathname)} \ {<<>>}}

\* C7 as stated: no failure escapes the gate: every render is one of the
\* defined outcomes and a failed route-access check is neither thrown past
\* checkRouteAccess nor left to end in Allow.
C7_Original ==
    /\ Decision(appView).kind \in {"pending", "deactivated", "deny", "redirect", "allow"}
    /\ ~unhandled

\* C8 as stated: whenever AppContent renders the main layout the user is
\* authenticated, has a role, is not inactive, and the route-access check
\* for that user and path has completed and granted access.
C8_Original ==
    appView.view = "ElimshaLayout"
        => /\ authState.user # NoUser
           /\ HasRole(authState.user)
           /\ authState.user.status # "inactive"
           /\ accessCheck # <<>>
           /\ accessCheck = ExpectedCheck(authState.user, pathname)
           /\ accessCheck[1].hasAccess

-----------------------------------------------------------------------------
(* Claims about useAdminSchoolsData (SpecQuery)                            *)

GuardErrors == {ErrAuthRequired, ErrRoleNotLoaded, ErrAccessDenied}

IsAdmin(user) == user # NoUser /\ user.role = "edufam_admin"

\* C9: every run of queryFn (first fetch, manual refetch, retry) calls the
\* remote procedure only for a present user with role edufam_admin; for any
\* other user the run fails with a guard error and makes no remote call.
C9_RpcOnlyForAdmin ==
    lastRun.ran =>
        /\ lastRun.rpc => IsAdmin(lastRun.user)
        /\ ~IsAdmin(lastRun.user) =>
              /\ ~lastRun.rpc
              /\ queryError \in GuardErrors
              /\ queryStatus \in {"retrying", "error"}

\* a manual refetch by a teacher (the query is disabled) ran and failed
\* without a remote call
C9_Witness ==
    /\ lastRun.ran
    /\ lastRun.user # NoUser
    /\ lastRun.user.role = "teacher"
    /\ ~lastRun.rpc
    /\ queryError = ErrAccessDenied
    /\ queryStatus = "error"

\* C10 as stated: a run of queryFn that failed in its guard (no user, role
\* not loaded, role not edufam_admin) is never retried.
C10_Original ==
    (lastRun.ran /\ ~lastRun.rpc /\ queryError \in GuardErrors)
        => queryStatus # "retrying"

====
